---- MODULE Spec2Model ----
(***************************************************************************)
(* SDE_CRA: the interval timer ECtimes (time_stamp / time_report) and the  *)
(* maintenance driver perform_maintenance, modelled from src/SDE_CRA.py.   *)
(*                                                                         *)
(* Spec   : one ECtimes instance driven by an arbitrary caller.            *)
(* SpecPM : one call of perform_maintenance, with its own timer.            *)
(***************************************************************************)
EXTENDS Integers, Sequences, FiniteSets, TLC

VARIABLES
    lst_time,   \* ECtimes.lst_time: the list of [group, dt.now(), stst, text]
    now,        \* the clock read by dt.now(): the latest value it returned
    last,       \* the most recent call on the timer and the value it returned
    pc,         \* perform_maintenance: the statement it is at
    mode,       \* perform_maintenance: its argument mode
    con_geo,    \* perform_maintenance: its argument con_geo, then the list made of it
    idx,        \* perform_maintenance: position of the running "for con in con_geo"
    dict_conn2versions,  \* perform_maintenance: connection -> list of its datasets
    calls,      \* the calls made to the vendor toolkit (arcpy), in order
    accepting   \* the database: TRUE while it accepts new connections

timervars == <<lst_time, now, last>>
pmvars == <<pc, mode, con_geo, idx, dict_conn2versions, calls, accepting>>
vars == <<lst_time, now, last, pc, mode, con_geo, idx, dict_conn2versions, calls,
          accepting>>

(***************************************************************************)
(* Bounds of the model.                                                    *)
(***************************************************************************)
MaxLen == 4     \* time_stamp calls made by the caller of Spec
MaxTime == 2    \* the clock runs over 0..MaxTime (one unit = one second)
NumCon == 2     \* data owner connections passed to perform_maintenance
MaxMode == 2    \* words in the mode passed to perform_maintenance

(***************************************************************************)
(* Strings.  Python 2 compares str values bytewise; the table lists every  *)
(* string the model compares, in that order.                               *)
(***************************************************************************)
StrOrder ==
    << "", "Initialize", "Start of Main()", "a", "analyze1_BASE",
       "analyze1_s10", "analyze1_s100", "analyze1_s50", "analyze1_sde",
       "analyze2_BASE", "analyze2_s10", "analyze2_s100", "analyze2_s50",
       "analyze2_sde", "b", "compress", "list_data", "main",
       "rebuild_index_BASE", "rebuild_index_s10", "rebuild_index_s100",
       "rebuild_index_s50", "rebuild_index_sde", "start", "stop",
       "stst" >>

StrIndex(s) == CHOOSE i \in DOMAIN StrOrder : StrOrder[i] = s

StrLess(x, y) == StrIndex(x) < StrIndex(y)

\* Inputs of the caller of Spec.
Groups == {"a", "b"}
Phases == {"start", "stop", "pause", "other"}
Texts == {""}

(***************************************************************************)
(* ECtimes.time_stamp                                                      *)
(***************************************************************************)
\* faulty variant of NormStst: an unknown phase is taken for a 'stop'
NormStst_stop(stst) == IF stst \notin {"start", "stop"} THEN "stop" ELSE stst

\* lines 307-308: anything but 'start'/'stop' is stored as 'stst'
NormStst(stst) == IF stst \notin {"start", "stop"} THEN "stst" ELSE stst

\* line 309: self.lst_time.append([group, dt.now(), stst, text])
time_stamp(log, group, stst, text, t) ==
    Append(log, [group |-> group, t |-> t, stst |-> NormStst(stst), text |-> text])

(***************************************************************************)
(* ECtimes.time_report                                                     *)
(***************************************************************************)
\* stamp[1:] : the stamp without its group
StampTail(stamp) == [t |-> stamp.t, stst |-> stamp.stst, text |-> stamp.text]

\* faulty variant of dic_groups: every group collects every stamp of the log
dic_groups_all(log) ==
    [g \in {log[i].group : i \in DOMAIN log} |->
        [i \in DOMAIN log |-> StampTail(log[i])]]

\* lines 317-320: group the stamps by stamp[0], in log order
RECURSIVE dic_groups(_)
dic_groups(log) ==
    IF log = <<>> THEN <<>>
    ELSE LET d == dic_groups(SubSeq(log, 1, Len(log) - 1))
             stamp == log[Len(log)]
         IN  IF stamp.group \notin DOMAIN d
               THEN d @@ (stamp.group :> <<StampTail(stamp)>>)
               ELSE [d EXCEPT ![stamp.group] = Append(@, StampTail(stamp))]

\* Python's comparison of two lists [dt, stst, text]: element by element
StampLess(x, y) ==
    \/ x.t < y.t
    \/ x.t = y.t /\ StrLess(x.stst, y.stst)
    \/ x.t = y.t /\ x.stst = y.stst /\ StrLess(x.text, y.text)

\* insert x after the last element that is not greater than it (stable)
RECURSIVE Insert(_, _)
Insert(s, x) ==
    IF s = <<>> THEN <<x>>
    ELSE IF StampLess(x, s[Len(s)])
           THEN Append(Insert(SubSeq(s, 1, Len(s) - 1), x), s[Len(s)])
           ELSE Append(s, x)

\* line 326: series.sort()
RECURSIVE SortSeries(_)
SortSeries(series) ==
    IF series = <<>> THEN <<>>
    ELSE Insert(SortSeries(SubSeq(series, 1, Len(series) - 1)), series[Len(series)])

\* faulty variant of PairDur: the test of the two kinds is the wrong way round
PairDur_swapped(series, i) ==
    IF series[i].stst = "stop"
      THEN IF series[i + 1].stst = "start"
             THEN series[i + 1].t - series[i].t
             ELSE 0
      ELSE 0

\* lines 328-337: what the pair (series[i], series[i+1]) adds to deltatime
PairDur(series, i) ==
    IF series[i].stst = "start"
      THEN IF series[i + 1].stst = "stop"
             THEN series[i + 1].t - series[i].t
             ELSE 0
      ELSE 0

\* lines 327-337: for i in range(len(series))[::2], from index i on
RECURSIVE SumPairs(_, _)
SumPairs(series, i) ==
    IF i > Len(series) THEN 0
    ELSE PairDur(series, i) + SumPairs(series, i + 2)

\* faulty variant of deltatime: the span from the first stamp to the last
deltatime_span(series) ==
    LET s == SortSeries(series)
    IN  IF s = <<>> THEN 0 ELSE s[Len(s)].t - s[1].t

\* lines 323-337: deltatime of one group that is not skipped
deltatime(series) == SumPairs(SortSeries(series), 1)

\* line 324: if len(series) % 2 == 1: continue
Skipped(series) == Len(series) % 2 = 1

\* line 338: "group: {} = {} seconds".format(group, deltatime.total_seconds())
ReportLine(group, delta) == [group |-> group, seconds |-> delta]

\* faulty variant of dic_report: an odd group is not skipped, it reports 0 seconds
dic_report_noskip(log) ==
    LET d == dic_groups(log)
    IN  [g \in DOMAIN d |->
            ReportLine(g, IF Skipped(d[g]) THEN 0 ELSE deltatime(d[g]))]

\* lines 321-338: dic_report
dic_report(log) ==
    LET d == dic_groups(log)
    IN  [g \in {k \in DOMAIN d : ~Skipped(d[k])} |-> ReportLine(g, deltatime(d[g]))]

\* faulty variant of SortKeys: the keys come out in descending order
RECURSIVE SortKeys_desc(_)
SortKeys_desc(keys) ==
    IF keys = {} THEN <<>>
    ELSE LET m == CHOOSE k \in keys : \A o \in keys : o = k \/ StrLess(o, k)
         IN  <<m>> \o SortKeys_desc(keys \ {m})

\* lines 339-340: rep_keys = dic_report.keys(); rep_keys.sort()
RECURSIVE SortKeys(_)
SortKeys(keys) ==
    IF keys = {} THEN <<>>
    ELSE LET m == CHOOSE k \in keys : \A o \in keys : o = k \/ StrLess(k, o)
         IN  <<m>> \o SortKeys(keys \ {m})

\* lines 341-343: str_report, one "\n" + line for each key; the sequence of lines
time_report(log) ==
    LET r == dic_report(log)
        rep_keys == SortKeys(DOMAIN r)
    IN  [i \in 1..Len(rep_keys) |-> r[rep_keys[i]]]

\* faulty variant of LogAfterReport: the report consumes the log
LogAfterReport_clear(log) == <<>>

\* what time_report leaves in self.lst_time: it sorts copies (stamp[1:]) only
LogAfterReport(log) == log

(***************************************************************************)
(* Spec: the timer and its caller.                                         *)
(***************************************************************************)
NoCall == [op |-> "none", group |-> "", stst |-> "", text |-> "", ret |-> <<>>]

\* ECtimes(): __init__, line 297
TimerInit ==
    /\ lst_time = <<>>
    /\ now = 0
    /\ last = NoCall

\* in Spec perform_maintenance is not running
Init ==
    /\ TimerInit
    /\ pc = "idle"
    /\ mode = [str |-> FALSE, words |-> {}]
    /\ con_geo = <<>>
    /\ idx = 0
    /\ dict_conn2versions = <<>>
    /\ calls = <<>>
    /\ accepting = TRUE

\* a call of time_stamp(group, stst, text) at clock reading t; it returns 0
TimeStamp(group, stst, text, t) ==
    /\ Len(lst_time) < MaxLen
    /\ now' = t
    /\ lst_time' = time_stamp(lst_time, group, stst, text, t)
    /\ last' = [op |-> "time_stamp", group |-> group, stst |-> stst,
                text |-> text, ret |-> <<0>>]
    /\ UNCHANGED pmvars

\* a call of time_report(); it returns the report
TimeReport ==
    /\ lst_time' = LogAfterReport(lst_time)
    /\ now' = now
    /\ last' = [op |-> "time_report", group |-> "", stst |-> "",
                text |-> "", ret |-> time_report(lst_time)]
    /\ UNCHANGED pmvars

\* the caller records an event; dt.now() is not earlier than its last reading
TimeStampCall ==
    \E group \in Groups, stst \in Phases, text \in Texts, t \in now..MaxTime :
        TimeStamp(group, stst, text, t)

Next ==
    \/ TimeStampCall
    \/ TimeReport

Spec == Init /\ [][Next]_vars

(***************************************************************************)
(* perform_maintenance(con_dba, con_geo, mode, sde_id_match_pattern)       *)
(***************************************************************************)
\* the connections of the sample caller, run_sde_cra.py lines 34-40
con_dba == "sys_SDE.sde"

con_data_owners == <<"sys_BASE.sde", "sys_s10.sde", "sys_s50.sde", "sys_s100.sde">>

\* line 71
individual_analyze == FALSE

\* the words a mode can contain (docstring, line 156)
ModeWords ==
    {"cra", "acra", "aca", "analyze", "compress", "rebuild", "report", "block", "kick"}

\* mode is a list of words (run_sde_cra.py) or one string (main(), sys.argv[3])
Modes ==
    {[str |-> b, words |-> w] :
        b \in BOOLEAN, w \in {x \in SUBSET ModeWords : Cardinality(x) <= MaxMode}}

\* con_geo is one connection string or a list of them
ConGeoArgs ==
    {[str |-> TRUE, val |-> con_data_owners[1]]}
        \cup {[str |-> FALSE, val |-> SubSeq(con_data_owners, 1, n)] : n \in 0..NumCon}

\* `word in text` for two mode words: is word a substring of text
Contains(text, word) == text = word \/ (text = "acra" /\ word = "cra")

\* `word in mode`: an element of the list, or a substring of the string
In(word, m) ==
    IF m.str THEN \E w \in m.words : Contains(w, word) ELSE word \in m.words

\* line 195: mode != ['report']
NotJustReport(m) == m.str \/ m.words # {"report"}

\* lines 170-171: if isinstance(con_geo, basestring): con_geo = [con_geo]
AsList(arg) == IF arg.str THEN <<arg.val>> ELSE arg.val

\* get_sde_id with the caller's id_pattern "sys_(BASE|s\d+m?)" (run_sde_cra.py:42)
get_sde_id(string) ==
    CASE string = "sys_BASE.sde" -> "BASE"
      [] string = "sys_s10.sde" -> "s10"
      [] string = "sys_s50.sde" -> "s50"
      [] string = "sys_s100.sde" -> "s100"
      [] OTHER -> string

\* prefix + sde_id, for the labels of lines 211, 224, 241, 247, 258, 262
Concat(prefix, id) ==
    CASE prefix = "analyze1_" /\ id = "BASE" -> "analyze1_BASE"
      [] prefix = "analyze1_" /\ id = "s10" -> "analyze1_s10"
      [] prefix = "analyze1_" /\ id = "s50" -> "analyze1_s50"
      [] prefix = "analyze1_" /\ id = "s100" -> "analyze1_s100"
      [] prefix = "analyze1_" /\ id = "sde" -> "analyze1_sde"
      [] prefix = "rebuild_index_" /\ id = "BASE" -> "rebuild_index_BASE"
      [] prefix = "rebuild_index_" /\ id = "s10" -> "rebuild_index_s10"
      [] prefix = "rebuild_index_" /\ id = "s50" -> "rebuild_index_s50"
      [] prefix = "rebuild_index_" /\ id = "s100" -> "rebuild_index_s100"
      [] prefix = "rebuild_index_" /\ id = "sde" -> "rebuild_index_sde"
      [] prefix = "analyze2_" /\ id = "BASE" -> "analyze2_BASE"
      [] prefix = "analyze2_" /\ id = "s10" -> "analyze2_s10"
      [] prefix = "analyze2_" /\ id = "s50" -> "analyze2_s50"
      [] prefix = "analyze2_" /\ id = "s100" -> "analyze2_s100"
      [] prefix = "analyze2_" /\ id = "sde" -> "analyze2_sde"

\* a call of the vendor toolkit: what is called, on which connection, with which
\* argument, in which step of the workflow ("1b", "2", "3", "4", or "" outside it),
\* how the vendor operation ended, and what the function of SDE_CRA.py that made
\* the call returned (<<>> when the exception left it)
VCall(op, con, arg, step, out, ret) ==
    [op |-> op, con |-> con, arg |-> arg, step |-> step, out |-> out, ret |-> ret]

\* how a vendor operation can end
Outcomes == {"ok", "raise"}

\* the time_stamp calls evs (group, stst, text), each one clock tick after the last
RECURSIVE StampAll(_, _, _)
StampAll(log, t, evs) ==
    IF evs = <<>> THEN log
    ELSE StampAll(time_stamp(log, evs[1][1], evs[1][2], evs[1][3], t + 1),
                  t + 1, Tail(evs))

\* perform_maintenance makes the time_stamp calls evs on its timer
PMStamp(evs) ==
    /\ lst_time' = StampAll(lst_time, now, evs)
    /\ now' = now + Len(evs)
    /\ last' = IF evs = <<>> THEN last
               ELSE [op |-> "time_stamp", group |-> evs[Len(evs)][1],
                     stst |-> evs[Len(evs)][2], text |-> evs[Len(evs)][3],
                     ret |-> <<0>>]

\* faulty variant of NextPc: Rebuild Indexes is run before Compress
NextPc_rebuildfirst(p) ==
    CASE p = "analyze1" -> "rebuild"
      [] p = "rebuild" -> "compress"
      [] p = "compress" -> "analyze2"
      [] p = "analyze2" -> "mainstop"

\* the order of the four steps in the text of perform_maintenance (lines 203-266)
NextPc(p) ==
    CASE p = "analyze1" -> "compress"
      [] p = "compress" -> "rebuild"
      [] p = "rebuild" -> "analyze2"
      [] p = "analyze2" -> "mainstop"

\* lines 205, 229, 236, 253: is the step run in this mode
PhaseOn(p, m) ==
    CASE p = "analyze1" -> In("acra", m) \/ In("aca", m)
      [] p = "compress" -> In("cra", m) \/ In("acra", m) \/ In("aca", m)
                             \/ In("compress", m)
      [] p = "rebuild" -> In("cra", m) \/ In("acra", m) \/ In("rebuild", m)
      [] p = "analyze2" -> In("cra", m) \/ In("acra", m) \/ In("aca", m)
                             \/ In("analyze", m)

\* SpecPM starts at the call of perform_maintenance
InitPM ==
    /\ TimerInit
    /\ pc = "start"
    /\ mode \in Modes
    /\ con_geo \in ConGeoArgs
    /\ idx = 0
    /\ dict_conn2versions = <<>>
    /\ calls = <<>>
    /\ accepting = TRUE

\* lines 159-171: the timer, the first time stamp, con_geo made a list
PM_Start ==
    /\ pc = "start"
    /\ PMStamp(<< <<"Initialize", "start", "Start of Main()">> >>)
    /\ con_geo' = [str |-> FALSE, val |-> AsList(con_geo)]
    /\ idx' = 1
    /\ pc' = "versions"
    /\ UNCHANGED <<mode, dict_conn2versions, calls, accepting>>

\* lines 174-180: arcpy.da.ListVersions(con) for one con of con_geo
PM_ListVersions ==
    /\ pc = "versions"
    /\ idx <= Len(con_geo.val)
    /\ \E out \in Outcomes :
          /\ calls' = Append(calls,
                 VCall("ListVersions", con_geo.val[idx], "", "", out, <<>>))
          /\ IF out = "ok"
               THEN idx' = idx + 1 /\ pc' = pc
               ELSE idx' = idx /\ pc' = "raised"
    /\ UNCHANGED <<timervars, mode, con_geo, dict_conn2versions, accepting>>

\* line 182
PM_InitStop ==
    /\ pc = "versions"
    /\ idx > Len(con_geo.val)
    /\ PMStamp(<< <<"Initialize", "stop", "Start of Main()">> >>)
    /\ pc' = "block"
    /\ UNCHANGED <<mode, con_geo, idx, dict_conn2versions, calls, accepting>>

\* lines 185-186: arcpy.AcceptConnections(con_dba, False)
PM_Block ==
    /\ pc = "block"
    /\ IF In("block", mode)
         THEN \E out \in Outcomes :
                 /\ calls' = Append(calls,
                        VCall("AcceptConnections", con_dba, "False", "", out, <<>>))
                 /\ IF out = "ok"
                      THEN accepting' = FALSE /\ pc' = "kick"
                      ELSE accepting' = accepting /\ pc' = "raised"
         ELSE pc' = "kick" /\ UNCHANGED <<calls, accepting>>
    /\ UNCHANGED <<timervars, mode, con_geo, idx, dict_conn2versions>>

\* lines 188-189: arcpy.DisconnectUser(con_dba, "ALL")
PM_Kick ==
    /\ pc = "kick"
    /\ IF In("kick", mode)
         THEN \E out \in Outcomes :
                 /\ calls' = Append(calls,
                        VCall("DisconnectUser", con_dba, "ALL", "", out, <<>>))
                 /\ pc' = IF out = "ok" THEN "main" ELSE "raised"
         ELSE pc' = "main" /\ UNCHANGED calls
    /\ UNCHANGED <<timervars, mode, con_geo, idx, dict_conn2versions, accepting>>

\* lines 191-198: the main timer starts; the data sets are listed unless the mode
\* is ['report']
PM_MainStart ==
    /\ pc = "main"
    /\ IF NotJustReport(mode)
         THEN /\ PMStamp(<< <<"main", "start", "">>, <<"list_data", "start", "">> >>)
              /\ pc' = "list"
         ELSE /\ PMStamp(<< <<"main", "start", "">> >>)
              /\ pc' = "analyze1"
    /\ idx' = 1
    /\ UNCHANGED <<mode, con_geo, dict_conn2versions, calls, accepting>>

\* lines 199-200: dict_conn2versions[con] = list_datasets(con)
PM_ListDatasets ==
    /\ pc = "list"
    /\ idx <= Len(con_geo.val)
    /\ \E res \in {<<"ok", <<>>>>, <<"ok", <<"fc1", "fc2">>>>, <<"raise", <<>>>>} :
          /\ calls' = Append(calls,
                 VCall("list_datasets", con_geo.val[idx], "", "", res[1],
                       IF res[1] = "ok" THEN <<res[2]>> ELSE <<>>))
          /\ IF res[1] = "ok"
               THEN /\ dict_conn2versions' =
                         (con_geo.val[idx] :> res[2]) @@ dict_conn2versions
                    /\ idx' = idx + 1
                    /\ pc' = pc
               ELSE /\ UNCHANGED <<dict_conn2versions, idx>>
                    /\ pc' = "raised"
    /\ UNCHANGED <<timervars, mode, con_geo, accepting>>

\* line 201
PM_ListDone ==
    /\ pc = "list"
    /\ idx > Len(con_geo.val)
    /\ PMStamp(<< <<"list_data", "stop", "">> >>)
    /\ idx' = 1
    /\ pc' = "analyze1"
    /\ UNCHANGED <<mode, con_geo, dict_conn2versions, calls, accepting>>

\* a step whose test of the mode fails is passed over
PM_SkipStep ==
    /\ pc \in {"analyze1", "compress", "rebuild", "analyze2"}
    /\ ~PhaseOn(pc, mode)
    /\ pc' = NextPc(pc)
    /\ idx' = 1
    /\ UNCHANGED <<timervars, mode, con_geo, dict_conn2versions, calls, accepting>>

\* analyze_data_owner and analyze_sde, lines 100-111: return 0, unless the vendor
\* operation raises, and then the exception leaves the function
analyze(out) ==
    [ret |-> IF out = "ok" THEN <<0>> ELSE <<>>, raised |-> out # "ok"]

\* compress, lines 114-117: the same
compress(out) ==
    [ret |-> IF out = "ok" THEN <<0>> ELSE <<>>, raised |-> out # "ok"]

\* faulty variant of rebuild_indexes: without the try, the exception leaves it
rebuild_indexes_notry(out) ==
    [ret |-> IF out = "ok" THEN <<0>> ELSE <<>>, raised |-> out # "ok"]

\* rebuild_indexes, lines 120-139: return 0, and return 1 when the vendor operation
\* raises (except arcpy.ExecuteError, except BaseException)
rebuild_indexes(out) ==
    [ret |-> IF out = "ok" THEN <<0>> ELSE <<1>>, raised |-> FALSE]

\* time_stamp(label, 'start', ''); one call of a function of SDE_CRA.py that makes
\* the vendor call c and ends as r; and, if no exception left it,
\* time_stamp(label, 'stop', ''), going on at statement p with loop position i
Timed(label, c, r, p, i) ==
    /\ calls' = Append(calls, [c EXCEPT !.ret = r.ret])
    /\ IF r.raised
         THEN /\ PMStamp(<< <<label, "start", "">> >>)
              /\ pc' = "raised"
              /\ idx' = idx
         ELSE /\ PMStamp(<< <<label, "start", "">>, <<label, "stop", "">> >>)
              /\ pc' = p
              /\ idx' = i
    /\ UNCHANGED <<mode, con_geo, dict_conn2versions, accepting>>

\* a data owner connection without data sets is passed over (lines 222-223, 245-246)
SkipEmpty ==
    /\ idx' = idx + 1
    /\ UNCHANGED <<timervars, pc, mode, con_geo, dict_conn2versions, calls, accepting>>

\* lines 213-216: analyze_data_owner(con, fc) for one fc after the other; the
\* first k calls are made, and only the last of them can have raised
TimedEach(label, c, data, p, i) ==
    \E k \in DOMAIN data, out \in Outcomes :
        /\ out = "ok" => k = Len(data)
        /\ calls' = calls \o [j \in 1..k |->
                        IF j < k THEN [c EXCEPT !.out = "ok", !.ret = analyze("ok").ret]
                        ELSE [c EXCEPT !.out = out, !.ret = analyze(out).ret]]
        /\ IF analyze(out).raised
             THEN /\ PMStamp(<< <<label, "start", "">> >>)
                  /\ pc' = "raised"
                  /\ idx' = idx
             ELSE /\ PMStamp(<< <<label, "start", "">>, <<label, "stop", "">> >>)
                  /\ pc' = p
                  /\ idx' = i
        /\ UNCHANGED <<mode, con_geo, dict_conn2versions, accepting>>

\* lines 207-223: first Analyze, one data owner connection
PM_Analyze1Owner ==
    /\ pc = "analyze1"
    /\ PhaseOn(pc, mode)
    /\ idx <= Len(con_geo.val)
    /\ LET con == con_geo.val[idx]
           label == Concat("analyze1_", get_sde_id(con))
           c == VCall("AnalyzeDatasets", con, "NO_SYSTEM", "1b", "ok", <<>>)
       IN  IF Len(dict_conn2versions[con]) > 0
             THEN IF individual_analyze
                    THEN TimedEach(label, c, dict_conn2versions[con], pc, idx + 1)
                    ELSE \E out \in Outcomes :
                            Timed(label, [c EXCEPT !.out = out], analyze(out),
                                  pc, idx + 1)
             ELSE SkipEmpty

\* lines 224-226: first Analyze, the sde connection
PM_Analyze1Sde ==
    /\ pc = "analyze1"
    /\ PhaseOn(pc, mode)
    /\ idx > Len(con_geo.val)
    /\ \E out \in Outcomes :
          Timed("analyze1_sde",
                VCall("AnalyzeDatasets", con_dba, "SYSTEM", "1b", out, <<>>),
                analyze(out), NextPc(pc), 1)

\* lines 229-233: Compress, on the sde connection
PM_Compress ==
    /\ pc = "compress"
    /\ PhaseOn(pc, mode)
    /\ \E out \in Outcomes :
          Timed("compress",
                VCall("Compress", con_dba, "", "2", out, <<>>),
                compress(out), NextPc(pc), 1)

\* lines 238-246: Rebuild Indexes, one data owner connection
PM_RebuildOwner ==
    /\ pc = "rebuild"
    /\ PhaseOn(pc, mode)
    /\ idx <= Len(con_geo.val)
    /\ LET con == con_geo.val[idx]
       IN  IF Len(dict_conn2versions[con]) > 0
             THEN \E out \in Outcomes :
                     Timed(Concat("rebuild_index_", get_sde_id(con)),
                           VCall("RebuildIndexes", con, "NO_SYSTEM", "3", out, <<>>),
                           rebuild_indexes(out), pc, idx + 1)
             ELSE SkipEmpty

\* lines 247-249: Rebuild Indexes, the sde connection
PM_RebuildSde ==
    /\ pc = "rebuild"
    /\ PhaseOn(pc, mode)
    /\ idx > Len(con_geo.val)
    /\ \E out \in Outcomes :
          Timed("rebuild_index_sde",
                VCall("RebuildIndexes", con_dba, "SYSTEM", "3", out, <<>>),
                rebuild_indexes(out), NextPc(pc), 1)

\* lines 255-261: second Analyze, one data owner connection
PM_Analyze2Owner ==
    /\ pc = "analyze2"
    /\ PhaseOn(pc, mode)
    /\ idx <= Len(con_geo.val)
    /\ LET con == con_geo.val[idx]
       IN  IF Len(dict_conn2versions[con]) > 0
             THEN \E out \in Outcomes :
                     Timed(Concat("analyze2_", get_sde_id(con)),
                           VCall("AnalyzeDatasets", con, "NO_SYSTEM", "4", out, <<>>),
                           analyze(out), pc, idx + 1)
             ELSE SkipEmpty

\* lines 262-264: second Analyze, the sde connection
PM_Analyze2Sde ==
    /\ pc = "analyze2"
    /\ PhaseOn(pc, mode)
    /\ idx > Len(con_geo.val)
    /\ \E out \in Outcomes :
          Timed("analyze2_sde",
                VCall("AnalyzeDatasets", con_dba, "SYSTEM", "4", out, <<>>),
                analyze(out), NextPc(pc), 1)

\* line 266
PM_MainStop ==
    /\ pc = "mainstop"
    /\ PMStamp(<< <<"main", "stop", "">> >>)
    /\ pc' = "unblock"
    /\ UNCHANGED <<mode, con_geo, idx, dict_conn2versions, calls, accepting>>

\* lines 269-271: arcpy.AcceptConnections(con_dba, True)
PM_Unblock ==
    /\ pc = "unblock"
    /\ IF In("block", mode)
         THEN \E out \in Outcomes :
                 /\ calls' = Append(calls,
                        VCall("AcceptConnections", con_dba, "True", "", out, <<>>))
                 /\ IF out = "ok"
                      THEN accepting' = TRUE /\ pc' = "report"
                      ELSE accepting' = accepting /\ pc' = "raised"
         ELSE pc' = "report" /\ UNCHANGED <<calls, accepting>>
    /\ UNCHANGED <<timervars, mode, con_geo, idx, dict_conn2versions>>

\* lines 274-283: the report is compiled and logged, and perform_maintenance returns
PM_Report ==
    /\ pc = "report"
    /\ IF In("report", mode)
         THEN /\ lst_time' = LogAfterReport(lst_time)
              /\ last' = [op |-> "time_report", group |-> "", stst |-> "",
                          text |-> "", ret |-> time_report(lst_time)]
              /\ now' = now
         ELSE UNCHANGED timervars
    /\ pc' = "done"
    /\ UNCHANGED <<mode, con_geo, idx, dict_conn2versions, calls, accepting>>

NextPM ==
    \/ PM_Start
    \/ PM_ListVersions
    \/ PM_InitStop
    \/ PM_Block
    \/ PM_Kick
    \/ PM_MainStart
    \/ PM_ListDatasets
    \/ PM_ListDone
    \/ PM_SkipStep
    \/ PM_Analyze1Owner
    \/ PM_Analyze1Sde
    \/ PM_Compress
    \/ PM_RebuildOwner
    \/ PM_RebuildSde
    \/ PM_Analyze2Owner
    \/ PM_Analyze2Sde
    \/ PM_MainStop
    \/ PM_Unblock
    \/ PM_Report

SpecPM == InitPM /\ [][NextPM]_vars

(***************************************************************************)
(* Vocabulary of the claims about the timer, stated on the log itself.     *)
(***************************************************************************)
Reported == last.op = "time_report"

\* the events of label g, in record order
EventsOf(log, g) == SelectSeq(log, LAMBDA e : e.group = g)

\* the log without the events of label g
WithoutGroup(log, g) == SelectSeq(log, LAMBDA e : e.group # g)

HasLine(rep, g) == \E i \in DOMAIN rep : rep[i].group = g

\* the lines of rep for label g (a set: empty when the label has no line)
LinesOf(rep, g) == {rep[i] : i \in {j \in DOMAIN rep : rep[j].group = g}}

SecondsOf(rep, g) == {ln.seconds : ln \in LinesOf(rep, g)}

\* start, stop, start, stop, ... in record order, nothing else, clock not going back
WellFormed(ev) ==
    /\ Len(ev) > 0
    /\ Len(ev) % 2 = 0
    /\ \A i \in DOMAIN ev : ev[i].stst = (IF i % 2 = 1 THEN "start" ELSE "stop")
    /\ \A i \in 1..(Len(ev) - 1) : ev[i].t <= ev[i + 1].t

\* sum of (stop_i - start_i) over the pairs in record order
RECURSIVE PairTotal(_)
PairTotal(ev) ==
    IF Len(ev) < 2 THEN 0
    ELSE (ev[2].t - ev[1].t) + PairTotal(SubSeq(ev, 3, Len(ev)))

(***************************************************************************)
(* C1: when a label receives only well-formed (start, stop) pairs in       *)
(* order, with timestamps non-decreasing (ties allowed), time_report       *)
(* reports for it exactly the sum of (stop_i - start_i).                   *)
(***************************************************************************)
C1_ExactSum ==
    Reported =>
        \A g \in Groups :
            WellFormed(EventsOf(lst_time, g)) =>
                SecondsOf(last.ret, g) = {PairTotal(EventsOf(lst_time, g))}

\* witness of C1's case: two well-formed pairs, the second starting when the first stops
C1_Witness ==
    /\ Reported
    /\ WellFormed(EventsOf(lst_time, "a"))
    /\ Len(EventsOf(lst_time, "a")) = 4
    /\ EventsOf(lst_time, "a")[2].t = EventsOf(lst_time, "a")[3].t

\* the start/stop events of a sequence of events
StartStop(ev) == SelectSeq(ev, LAMBDA e : e.stst \in {"start", "stop"})

\* the events of kind 'other' (stored as 'stst')
Others(ev) == SelectSeq(ev, LAMBDA e : e.stst = "stst")

Odd(n) == n % 2 = 1

(***************************************************************************)
(* C2 as written: a label whose number of start/stop events ('other'       *)
(* events not counted) is odd has no line in the report.                   *)
(***************************************************************************)
C2_OddStartStopNoLine ==
    Reported =>
        \A g \in Groups :
            Odd(Len(StartStop(EventsOf(lst_time, g)))) => ~HasLine(last.ret, g)

(***************************************************************************)
(* C2 as amended: a label whose number of events of every kind ('other'    *)
(* events counted too) is odd has no line in the report.                   *)
(***************************************************************************)
C2_OddEventsNoLine ==
    Reported =>
        \A g \in Groups :
            Odd(Len(EventsOf(lst_time, g))) => ~HasLine(last.ret, g)

\* a (start, stop) pair and one 'other' event: three events, and no line
C2_Witness ==
    /\ Reported
    /\ Len(EventsOf(lst_time, "a")) = 3
    /\ WellFormed(StartStop(EventsOf(lst_time, "a")))
    /\ Len(Others(EventsOf(lst_time, "a"))) = 1
    /\ ~HasLine(last.ret, "a")

\* every event of the label is of kind 'other'
OnlyOther(ev) == Len(ev) > 0 /\ Others(ev) = ev

\* stop, start, stop, start, ... in record order: every pair the wrong way round
StopBeforeStart(ev) ==
    /\ Len(ev) > 0
    /\ \A i \in DOMAIN ev : ev[i].stst = (IF i % 2 = 1 THEN "stop" ELSE "start")

(***************************************************************************)
(* C3 as written: a label for which no (start, stop) pair is matched (only *)
(* 'other' events, or all events in stop-before-start order) has no line   *)
(* in the report.                                                          *)
(***************************************************************************)
C3_NoMatchNoLine ==
    Reported =>
        \A g \in Groups :
            (\/ OnlyOther(EventsOf(lst_time, g))
             \/ StopBeforeStart(EventsOf(lst_time, g)))
                => ~HasLine(last.ret, g)

(***************************************************************************)
(* C3 as amended: such a label adds no duration: it has no line when the   *)
(* number of its events is odd, and otherwise one line that reports 0      *)
(* seconds.                                                                *)
(***************************************************************************)
C3_NoMatchZero ==
    Reported =>
        \A g \in Groups :
            (\/ OnlyOther(EventsOf(lst_time, g))
             \/ StopBeforeStart(EventsOf(lst_time, g)))
                => IF Odd(Len(EventsOf(lst_time, g)))
                     THEN ~HasLine(last.ret, g)
                     ELSE SecondsOf(last.ret, g) = {0}

\* a stop recorded one second before its start, and a label of 'other' events only
C3_Witness ==
    /\ Reported
    /\ StopBeforeStart(EventsOf(lst_time, "a"))
    /\ Len(EventsOf(lst_time, "a")) = 2
    /\ EventsOf(lst_time, "a")[1].t < EventsOf(lst_time, "a")[2].t
    /\ OnlyOther(EventsOf(lst_time, "b"))
    /\ Len(EventsOf(lst_time, "b")) = 2
    /\ SecondsOf(last.ret, "a") = {0}
    /\ SecondsOf(last.ret, "b") = {0}

\* the log without the 'other' events of label g
WithoutOthers(log, g) == SelectSeq(log, LAMBDA e : ~(e.group = g /\ e.stst = "stst"))

\* the number of 'other' events at the end of ev, after its last start/stop event
RECURSIVE Trailing(_)
Trailing(ev) ==
    IF ev = <<>> \/ ev[Len(ev)].stst # "stst" THEN 0
    ELSE 1 + Trailing(SubSeq(ev, 1, Len(ev) - 1))

\* the log without the last 'other' event of label g
RECURSIVE DropLastOther(_, _)
DropLastOther(log, g) ==
    IF log = <<>> THEN <<>>
    ELSE IF log[Len(log)].group = g
           THEN SubSeq(log, 1, Len(log) - 1)
           ELSE Append(DropLastOther(SubSeq(log, 1, Len(log) - 1), g), log[Len(log)])

\* the log without the 'other' events that label g records after its last start/stop
RECURSIVE WithoutTrailing(_, _)
WithoutTrailing(log, g) ==
    IF Trailing(EventsOf(log, g)) = 0 THEN log
    ELSE WithoutTrailing(DropLastOther(log, g), g)

(***************************************************************************)
(* C4 as written: inserting any number of 'other' events for a label at    *)
(* any positions leaves the label's reported duration unchanged: the label *)
(* is reported as it is for the log without its 'other' events.            *)
(***************************************************************************)
C4_OthersIgnored ==
    Reported =>
        \A g \in Groups :
            HasLine(time_report(WithoutOthers(lst_time, g)), g) =>
                LinesOf(last.ret, g) = LinesOf(time_report(WithoutOthers(lst_time, g)), g)

(***************************************************************************)
(* C4 as amended: an 'other' event is never the start or the stop of a     *)
(* matched pair, but it counts among the label's events and takes a place  *)
(* in the pairing.  For a label that has start/stop events, inserting an   *)
(* even number of 'other' events after all of them (at timestamps not      *)
(* earlier than theirs) leaves the label's line unchanged.                 *)
(***************************************************************************)
C4_TrailingOthersIgnored ==
    Reported =>
        \A g \in Groups :
            (/\ StartStop(EventsOf(lst_time, g)) # <<>>
             /\ ~Odd(Trailing(EventsOf(lst_time, g)))) =>
                LinesOf(last.ret, g) = LinesOf(time_report(WithoutTrailing(lst_time, g)), g)

\* a timed pair followed by two 'other' events a second apart
C4_Witness ==
    /\ Reported
    /\ Len(EventsOf(lst_time, "a")) = 4
    /\ Trailing(EventsOf(lst_time, "a")) = 2
    /\ EventsOf(lst_time, "a")[3].t < EventsOf(lst_time, "a")[4].t
    /\ SecondsOf(last.ret, "a") = {1}

(***************************************************************************)
(* C5: label isolation.  For two distinct labels A and B, the report has   *)
(* for B the line (its presence and its duration) that it has for the log  *)
(* with every event of A removed.                                          *)
(***************************************************************************)
C5_LabelIsolation ==
    Reported =>
        \A A \in Groups : \A B \in Groups \ {A} :
            LinesOf(last.ret, B) = LinesOf(time_report(WithoutGroup(lst_time, A)), B)

\* a.start, b.start, a.stop, b.stop: the two intervals overlap in time
C5_Witness ==
    /\ Reported
    /\ Len(lst_time) = 4
    /\ lst_time[1].group = "a" /\ lst_time[2].group = "b"
    /\ lst_time[3].group = "a" /\ lst_time[4].group = "b"
    /\ WellFormed(EventsOf(lst_time, "a"))
    /\ WellFormed(EventsOf(lst_time, "b"))
    /\ lst_time[2].t < lst_time[3].t /\ lst_time[3].t < lst_time[4].t
    /\ SecondsOf(last.ret, "a") = {1}
    /\ SecondsOf(last.ret, "b") = {2}

(***************************************************************************)
(* C6: the report has at most one line per label, and its lines are in     *)
(* ascending order of label name, whatever the order of recording.         *)
(***************************************************************************)
C6_SortedOneLinePerLabel ==
    Reported =>
        \A i \in DOMAIN last.ret : \A j \in DOMAIN last.ret :
            i < j => StrLess(last.ret[i].group, last.ret[j].group)

\* label b is recorded before label a, and both are reported
C6_Witness ==
    /\ Reported
    /\ Len(last.ret) = 2
    /\ lst_time[1].group = "b"
    /\ last.ret[1].group = "a"

(***************************************************************************)
(* C7: time_report is read-only and idempotent.  A call leaves lst_time    *)
(* (content and order) as it was; a call that follows a call with no       *)
(* time_stamp in between returns the same text; and a call reports the     *)
(* whole log as it is now: its lines are for exactly the labels that have  *)
(* an even number of events in it.                                         *)
(***************************************************************************)
C7_ReportReadOnly ==
    [][ last'.op = "time_report" =>
          /\ lst_time' = lst_time
          /\ (last.op = "time_report" => last'.ret = last.ret)
          /\ {last'.ret[i].group : i \in DOMAIN last'.ret}
               = {g \in Groups : /\ EventsOf(lst_time, g) # <<>>
                                 /\ ~Odd(Len(EventsOf(lst_time, g)))} ]_vars

\* a report of a log of four events, two labels, made after the last time_stamp
C7_Witness ==
    /\ Reported
    /\ Len(lst_time) = 4
    /\ Len(last.ret) = 2

(***************************************************************************)
(* C8: time_stamp(group, stst, text) always succeeds: it can be called in  *)
(* every state, whatever was recorded before, and returns 0.  It appends   *)
(* exactly one event to the end of the log and leaves the earlier events   *)
(* and their positions as they were.  The stored kind is stst when stst is *)
(* 'start' or 'stop', and the one sentinel 'stst' for every other value.   *)
(***************************************************************************)
C8_StampAppendsOne ==
    /\ [](Len(lst_time) < MaxLen =>
            \A g \in Groups, s \in Phases, x \in Texts : ENABLED TimeStamp(g, s, x, now))
    /\ [][ last'.op = "time_stamp" =>
             /\ last'.ret = <<0>>
             /\ Len(lst_time') = Len(lst_time) + 1
             /\ SubSeq(lst_time', 1, Len(lst_time)) = lst_time
             /\ lst_time'[Len(lst_time')].group = last'.group
             /\ lst_time'[Len(lst_time')].text = last'.text
             /\ lst_time'[Len(lst_time')].t = now'
             /\ lst_time'[Len(lst_time')].stst =
                  (IF last'.stst \in {"start", "stop"} THEN last'.stst ELSE "stst") ]_vars

\* a second 'start' in a row and then a phase that is neither start nor stop
C8_Witness ==
    /\ last.op = "time_stamp"
    /\ last.stst = "pause"
    /\ Len(lst_time) = 3
    /\ lst_time[1].stst = "start" /\ lst_time[2].stst = "start"
    /\ lst_time[1].group = lst_time[2].group
    /\ lst_time[3].stst = "stst"

(***************************************************************************)
(* Vocabulary of the claims about perform_maintenance, stated on the       *)
(* sequence of vendor calls.                                               *)
(***************************************************************************)
\* perform_maintenance is left: it returned, or an exception left it
Left == pc \in {"done", "raised"}

\* the calls of the maintenance workflow: analyze, compress, rebuild indexes
Workflow(c) == c.op \in {"AnalyzeDatasets", "Compress", "RebuildIndexes"}

\* call i is made before call j
Before(i, j) == i \in DOMAIN calls /\ j \in DOMAIN calls /\ i < j

(***************************************************************************)
(* C9: in every run of perform_maintenance, in every mode, the vendor      *)
(* operations are issued in the order analyze (first, only for acra/aca),  *)
(* compress, rebuild indexes, analyze (second): no call of a later step    *)
(* precedes a call of an earlier step; compress is issued on the DB-admin  *)
(* connection only; and inside an analyze or rebuild step every data-owner *)
(* connection is handled before the DB-admin (sde) connection.             *)
(***************************************************************************)
C9_WorkflowOrder ==
    \A i \in DOMAIN calls : \A j \in DOMAIN calls :
        /\ (calls[i].step = "1b") => (In("acra", mode) \/ In("aca", mode))
        /\ (calls[i].op = "Compress") => (calls[i].con = con_dba)
        /\ (calls[i].step \in {"1b", "4"}) = (calls[i].op = "AnalyzeDatasets")
        /\ (calls[i].step = "2") = (calls[i].op = "Compress")
        /\ (calls[i].step = "3") = (calls[i].op = "RebuildIndexes")
        /\ i < j =>
             /\ ~(calls[i].step = "2" /\ calls[j].step = "1b")
             /\ ~(calls[i].step = "3" /\ calls[j].step \in {"1b", "2"})
             /\ ~(calls[i].step = "4" /\ calls[j].step \in {"1b", "2", "3"})
             /\ ~(/\ calls[i].step \in {"1b", "3", "4"}
                  /\ calls[i].step = calls[j].step
                  /\ calls[i].con = con_dba
                  /\ calls[j].con # con_dba)

\* a full acra run over two data owners: all four steps, each on every connection
C9_Witness ==
    /\ pc = "done"
    /\ In("acra", mode)
    /\ Len(SelectSeq(calls, LAMBDA c : c.step = "1b")) = 3
    /\ Len(SelectSeq(calls, LAMBDA c : c.step = "2")) = 1
    /\ Len(SelectSeq(calls, LAMBDA c : c.step = "3")) = 3
    /\ Len(SelectSeq(calls, LAMBDA c : c.step = "4")) = 3

(***************************************************************************)
(* C10: when 'block' is in mode, the database stops accepting connections  *)
(* before any maintenance operation is issued; and however the operations  *)
(* in between end, one of them raising included, the database accepts      *)
(* connections again when perform_maintenance is left: every               *)
(* AcceptConnections(con_dba, False) is followed by an                     *)
(* AcceptConnections(con_dba, True).  (Only the maintenance operations     *)
(* analyze, compress and rebuild indexes are taken to raise here: the      *)
(* AcceptConnections calls and the other vendor calls succeed.)            *)
(***************************************************************************)
C10_Reopened ==
    /\ In("block", mode) =>
          \A i \in DOMAIN calls :
              Workflow(calls[i]) =>
                  \E k \in 1..(i - 1) :
                      calls[k].op = "AcceptConnections" /\ calls[k].arg = "False"
    /\ (/\ Left
        /\ \A i \in DOMAIN calls : ~Workflow(calls[i]) => calls[i].out = "ok")
          => /\ accepting
             /\ \A i \in DOMAIN calls :
                   (calls[i].op = "AcceptConnections" /\ calls[i].arg = "False") =>
                       \E j \in DOMAIN calls :
                           /\ i < j
                           /\ calls[j].op = "AcceptConnections"
                           /\ calls[j].arg = "True"

\* the events recorded for label g with kind k
Recorded(g, k) == SelectSeq(lst_time, LAMBDA e : e.group = g /\ e.stst = k)

\* the label under which the rebuild of connection con is timed
RebuildLabel(con) ==
    IF con = con_dba THEN "rebuild_index_sde"
    ELSE Concat("rebuild_index_", get_sde_id(con))

\* the calls of workflow step s made on connection con
StepCalls(s, con) == SelectSeq(calls, LAMBDA c : c.step = s /\ c.con = con)

\* the connections a step has to handle: the data owners that have data sets, and sde
ToHandle ==
    {con_geo.val[i] : i \in {j \in DOMAIN con_geo.val :
                                Len(dict_conn2versions[con_geo.val[j]]) > 0}}
        \cup {con_dba}

(***************************************************************************)
(* C11: a failure of the rebuild-indexes operation on one connection does  *)
(* not stop the run.  rebuild_indexes returns 1 instead of raising (and 0  *)
(* when the operation succeeds); the 'stop' event of that connection's     *)
(* rebuild_index label is recorded all the same; and, none of the other    *)
(* vendor calls raising, perform_maintenance returns after rebuilding      *)
(* every data-owner connection that has data sets and the sde connection,  *)
(* after the second analyze on all of them when the mode asks for it, and  *)
(* after recording the 'stop' event of 'main'.                             *)
(***************************************************************************)
C11_RebuildFailureGoesOn ==
    /\ \A i \in DOMAIN calls :
          calls[i].op = "RebuildIndexes" =>
              /\ calls[i].ret = (IF calls[i].out = "ok" THEN <<0>> ELSE <<1>>)
              /\ Len(Recorded(RebuildLabel(calls[i].con), "stop"))
                   = Len(StepCalls("3", calls[i].con))
              /\ Len(Recorded(RebuildLabel(calls[i].con), "start"))
                   = Len(StepCalls("3", calls[i].con))
    /\ (/\ Left
        /\ \A i \in DOMAIN calls : calls[i].op # "RebuildIndexes" => calls[i].out = "ok")
          => /\ pc = "done"
             /\ Len(Recorded("main", "stop")) = 1
             /\ PhaseOn("rebuild", mode) =>
                   \A con \in ToHandle : Len(StepCalls("3", con)) = 1
             /\ PhaseOn("analyze2", mode) =>
                   \A con \in ToHandle :
                       /\ Len(StepCalls("4", con)) = 1
                       /\ \A i \in DOMAIN calls : \A j \in DOMAIN calls :
                             (calls[i].step = "3" /\ calls[j].step = "4") => i < j

\* the rebuild fails on the first of two data owners; the second data owner and
\* sde are rebuilt, the second analyze is run, and the run ends with 'main' stopped
C11_Witness ==
    /\ pc = "done"
    /\ Len(con_geo.val) = 2
    /\ \E i \in DOMAIN calls :
          /\ calls[i].op = "RebuildIndexes"
          /\ calls[i].con = con_geo.val[1]
          /\ calls[i].out = "raise"
          /\ calls[i].ret = <<1>>
    /\ Len(StepCalls("3", con_geo.val[2])) = 1
    /\ Len(StepCalls("3", con_dba)) = 1
    /\ Len(StepCalls("4", con_geo.val[1])) = 1
    /\ Len(StepCalls("4", con_dba)) = 1
    /\ Len(Recorded(RebuildLabel(con_geo.val[1]), "stop")) = 1
    /\ Len(Recorded("main", "stop")) = 1

====
